---- MODULE Spec2Model ----
(***************************************************************************)
(* MMS PDU codec of python-messaging (messaging/mms/mms_pdu.py).           *)
(*                                                                         *)
(* Bytes are integers 0..255, byte buffers are sequences of bytes.  A      *)
(* Python str holding free text (addresses, transaction ids, versions) is  *)
(* the sequence of its character codes; names taken from fixed tables      *)
(* (header names, message types, media types) are TLA+ strings.            *)
(*                                                                         *)
(* Every decoder returns a record [st, val, it]: st is "ok" or the name    *)
(* of the exception raised, val the returned value, it the cursor as the   *)
(* call leaves it.                                                         *)
(***************************************************************************)
EXTENDS Integers, Sequences, FiniteSets, TLC

VARIABLES
    op,        \* the operation that produced the current state
    msg,       \* MMSEncoder._mms_message: the Message handed to encode
    wire,      \* the byte buffer: output of encode / input of decode
    iter,      \* the cursor (PreviewIterator) after the last decode step
    result,    \* what the last operation returned or raised
    before     \* the state the last operation started from (its inputs)

vars == <<op, msg, wire, iter, result, before>>

(***************************************************************************)
(* Results and exceptions                                                  *)
(***************************************************************************)
\* x = v; then the statements F that use x (v is evaluated once, as an
\* assignment evaluates its right-hand side once)
Bind(v, F(_)) == CHOOSE y \in {F(x) : x \in {v}} : TRUE

Ok(v, it) == [st |-> "ok", val |-> v, it |-> it]

Raise(e, it) == [st |-> e, val |-> <<>>, it |-> it]

(***************************************************************************)
(* messaging.mms.iterator.PreviewIterator: a position into an immutable    *)
(* byte sequence with a single pending-peek slot.                          *)
(***************************************************************************)
PreviewIterator(data) == [data |-> data, pos |-> 0, peek |-> FALSE]

Exhausted(it) == it.pos >= Len(it.data)

preview(it) ==
    IF Exhausted(it)
    THEN Raise("StopIteration", it)
    ELSE Ok(it.data[it.pos + 1], [it EXCEPT !.peek = TRUE])

next(it) ==
    IF Exhausted(it)
    THEN Raise("StopIteration", [it EXCEPT !.peek = FALSE])
    ELSE Ok(it.data[it.pos + 1], [it EXCEPT !.pos = @ + 1, !.peek = FALSE])

reset_preview(it) == [it EXCEPT !.peek = FALSE]

\* the bytes the cursor has not consumed yet
Rest(it) == SubSeq(it.data, it.pos + 1, Len(it.data))

(***************************************************************************)
(* wsp_pdu primitives (the generic binary-encoding layer)                  *)
(***************************************************************************)
\* Python integers are unbounded; the model's stop growing at IntCap, which is
\* above every length and every count a buffer of the model can satisfy
IntCap == 1048576

Capped(n) == IF n > IntCap THEN IntCap ELSE n

RECURSIVE UintvarLoop(_, _)
UintvarLoop(it, uint) ==
    Bind(next(it), LAMBDA r :
    IF r.st # "ok" THEN r
    ELSE IF r.val \div 128 = 1
         THEN UintvarLoop(r.it, Capped(uint * 128 + (r.val % 128)))
         ELSE Ok(Capped(uint * 128 + (r.val % 128)), r.it))

decodeUintvar(it) == UintvarLoop(it, 0)

RECURSIVE UintvarGroups(_)
UintvarGroups(n) ==
    IF n < 128 THEN <<n>> ELSE UintvarGroups(n \div 128) \o <<n % 128>>

encodeUintvar(n) ==
    Bind(UintvarGroups(n), LAMBDA g :
    [i \in 1..Len(g) |-> IF i < Len(g) THEN g[i] + 128 ELSE g[i]])

\* Short-integer: high bit set, value in the low 7 bits
decodeShortIntegerFromByte(byte) ==
    IF byte \div 128 = 1
    THEN [st |-> "ok", val |-> byte % 128]
    ELSE [st |-> "DecodeError", val |-> 0]

encodeShortInteger(n) == <<(n % 128) + 128>>

decodeShortInteger(it) ==
    Bind(preview(it), LAMBDA p :
    IF p.st # "ok" THEN p
    ELSE Bind(decodeShortIntegerFromByte(p.val), LAMBDA s :
         IF s.st # "ok"
         THEN Raise("DecodeError", reset_preview(p.it))
         ELSE Ok(s.val, next(it).it)))

\* Short-length: one byte 0..30
decodeShortLength(it) ==
    Bind(preview(it), LAMBDA p :
    IF p.st # "ok" THEN p
    ELSE IF p.val > 30
         THEN Raise("DecodeError", reset_preview(p.it))
         ELSE Ok(p.val, next(it).it))

\* Value-length = Short-length | (Length-quote(31) Uintvar)
decodeValueLength(it) ==
    Bind(decodeShortLength(it), LAMBDA s :
    IF s.st # "DecodeError" THEN s
    ELSE Bind(preview(s.it), LAMBDA p :
         IF p.st # "ok" THEN p
         ELSE IF p.val = 31
              THEN decodeUintvar(next(s.it).it)
              ELSE Raise("DecodeError", reset_preview(p.it))))

encodeValueLength(n) ==
    IF n <= 30 THEN <<n>> ELSE <<31>> \o encodeUintvar(n)

\* Text-string = [Quote(127)] *TEXT End-of-string(0)
RECURSIVE TextLoop(_, _)
TextLoop(it, str) ==
    Bind(next(it), LAMBDA r :
    IF r.st # "ok" THEN r
    ELSE IF r.val = 0 THEN Ok(str, r.it)
         ELSE TextLoop(r.it, Append(str, r.val)))

decodeTextString(it) ==
    Bind(next(it), LAMBDA r :
    IF r.st # "ok" THEN r
    ELSE IF r.val = 127 THEN TextLoop(r.it, <<>>)
         ELSE IF r.val = 0 THEN Ok(<<>>, r.it)
              ELSE TextLoop(r.it, <<r.val>>))

encodeTextString(str) ==
    (IF str # <<>> /\ str[1] >= 128 THEN <<127>> ELSE <<>>) \o str \o <<0>>

\* Token-text = Token End-of-string; a token has no CTLs and no separators
Separators == {32, 34, 40, 41, 44, 47, 58, 59, 60, 61, 62, 63, 64, 91, 92, 93, 123, 125}

IsTokenChar(b) == b > 32 /\ b < 127 /\ b \notin Separators

RECURSIVE TokenLoop(_, _)
TokenLoop(it, tok) ==
    Bind(next(it), LAMBDA r :
    IF r.st # "ok" THEN r
    ELSE IF r.val = 0 THEN Ok(tok, r.it)
         ELSE IF IsTokenChar(r.val) THEN TokenLoop(r.it, Append(tok, r.val))
              ELSE Raise("DecodeError", r.it))

decodeTokenText(it) ==
    Bind(preview(it), LAMBDA p :
    IF p.st # "ok" THEN p
    ELSE IF ~IsTokenChar(p.val)
         THEN Raise("DecodeError", reset_preview(p.it))
         ELSE TokenLoop(reset_preview(p.it), <<>>))

encodeTokenText(tok) == tok \o <<0>>

(***************************************************************************)
(* Python str <-> character codes.  chr() for the printable ASCII range,   *)
(* which holds every character a token or a media-type name can have      *)
(* (code 96 cannot be written in a TLA+ string and reads as "?").          *)
(***************************************************************************)
CharTable ==
    <<" ", "!", "\"", "#", "$", "%", "&", "'", "(", ")", "*", "+",
       ",", "-", ".", "/", "0", "1", "2", "3", "4", "5", "6", "7",
       "8", "9", ":", ";", "<", "=", ">", "?", "@", "A", "B", "C",
       "D", "E", "F", "G", "H", "I", "J", "K", "L", "M", "N", "O",
       "P", "Q", "R", "S", "T", "U", "V", "W", "X", "Y", "Z", "[",
       "\\", "]", "^", "_", "?", "a", "b", "c", "d", "e", "f", "g",
       "h", "i", "j", "k", "l", "m", "n", "o", "p", "q", "r", "s",
       "t", "u", "v", "w", "x", "y", "z", "{", "|", "}", "~">>

Chr(b) == IF b >= 32 /\ b <= 126 THEN CharTable[b - 31] ELSE "?"

RECURSIVE StrOf(_)
StrOf(codes) == IF codes = <<>> THEN "" ELSE Chr(Head(codes)) \o StrOf(Tail(codes))

\* the texts whose characters the encoder has to spell out
TextPool ==
    {<<88, 45, 65>>,
     <<88, 45, 66>>,
     <<67, 111, 110, 116, 101, 110, 116, 45, 73, 68>>,
     <<97, 112, 112, 108, 105, 99, 97, 116, 105, 111, 110, 47, 115, 109, 105, 108>>,
     <<116, 101, 120, 116, 47, 112, 108, 97, 105, 110>>,
     <<105, 109, 97, 103, 101, 47, 106, 112, 101, 103>>,
     <<97, 117, 100, 105, 111, 47, 97, 109, 114>>,
     <<115, 116, 97, 114, 116>>}

\* ord() over a whole str: the character codes of a name
CodesOf(str) ==
    IF \E c \in TextPool : StrOf(c) = str
    THEN CHOOSE c \in TextPool : StrOf(c) = str
    ELSE <<63>>

(***************************************************************************)
(* Python dict: a function; d[k] = v overrides, del d[k] removes           *)
(***************************************************************************)
EmptyDict == <<>>

Put(d, k, v) == (k :> v) @@ d

Del(d, k) == [x \in (DOMAIN d) \ {k} |-> d[x]]

Has(d, k) == k \in DOMAIN d

(***************************************************************************)
(* wsp_pdu primitives, continued: integers, versions, charsets             *)
(***************************************************************************)
RECURSIVE OctetsLoop(_, _, _)
OctetsLoop(it, n, acc) ==
    IF n = 0 THEN Ok(acc, it)
    ELSE Bind(next(it), LAMBDA r :
         IF r.st # "ok" THEN r ELSE OctetsLoop(r.it, n - 1, Capped(acc * 256 + r.val)))

\* Long-integer = Short-length Multi-octet-integer
decodeLongInteger(it) ==
    Bind(decodeShortLength(it), LAMBDA l :
    IF l.st # "ok" THEN l ELSE OctetsLoop(l.it, l.val, 0))

\* Integer-value = Short-integer | Long-integer
decodeIntegerValue(it) ==
    Bind(decodeShortInteger(it), LAMBDA s :
    IF s.st # "DecodeError" THEN s ELSE decodeLongInteger(s.it))

decodeDateValue(it) == decodeLongInteger(it)

decodeDeltaSecondsValue(it) == decodeIntegerValue(it)

decodeUriValue(it) == decodeTextString(it)

RECURSIVE DecimalStr(_)
DecimalStr(n) ==
    IF n < 10 THEN <<48 + n>> ELSE DecimalStr(n \div 10) \o <<48 + (n % 10)>>

\* Version-value = Short-integer (major in bits 4-6, minor in bits 0-3) | Text-string
decodeVersionValue(it) ==
    Bind(decodeShortInteger(it), LAMBDA s :
    IF s.st = "ok"
    THEN Ok(DecimalStr(s.val \div 16) \o <<46>> \o DecimalStr(s.val % 16), s.it)
    ELSE IF s.st = "DecodeError" THEN decodeTextString(s.it) ELSE s)

IsDigit(c) == c >= 48 /\ c <= 57

encodeVersionValue(version) ==
    IF Len(version) = 3 /\ version[2] = 46 /\ IsDigit(version[1]) /\ IsDigit(version[3])
       /\ version[1] - 48 >= 1 /\ version[1] - 48 <= 7
    THEN <<128 + (version[1] - 48) * 16 + (version[3] - 48)>>
    ELSE encodeTextString(version)

\* IANA MIBEnum values of the well-known character sets
well_known_charsets == (3 :> "us-ascii") @@ (4 :> "iso-8859-1") @@ (106 :> "utf-8")

decodeWellKnownCharset(it) ==
    Bind(preview(it), LAMBDA p :
    IF p.st # "ok" THEN p
    ELSE IF p.val = 127 THEN Ok("*", next(it).it)
         ELSE Bind(decodeIntegerValue(reset_preview(p.it)), LAMBDA v :
              IF v.st # "ok" THEN v
              ELSE IF v.val \in DOMAIN well_known_charsets
                   THEN Ok(well_known_charsets[v.val], v.it)
                   ELSE Raise("DecodeError", v.it)))

(***************************************************************************)
(* wsp_pdu: content-type values                                            *)
(***************************************************************************)
well_known_content_types ==
    (3 :> "text/plain") @@ (30 :> "image/jpeg")
    @@ (35 :> "application/vnd.wap.multipart.mixed")
    @@ (51 :> "application/vnd.wap.multipart.related")

\* Extension-media = *TEXT End-of-string
decodeExtensionMedia(it) ==
    Bind(preview(it), LAMBDA p :
    IF p.st # "ok" THEN p
    ELSE IF p.val < 32 \/ p.val = 127
         THEN Raise("DecodeError", reset_preview(p.it))
         ELSE Bind(decodeTextString(reset_preview(p.it)), LAMBDA t :
              IF t.st # "ok" THEN t ELSE Ok(StrOf(t.val), t.it)))

\* Media-type = Well-known-media | Extension-media
decodeMediaType(it) ==
    Bind(decodeShortInteger(it), LAMBDA s :
    IF s.st = "ok"
    THEN IF s.val \in DOMAIN well_known_content_types
         THEN Ok(well_known_content_types[s.val], s.it)
         ELSE Raise("DecodeError", s.it)
    ELSE IF s.st = "DecodeError" THEN decodeExtensionMedia(s.it) ELSE s)

\* Untyped-parameter = Token-text Text-string
decodeParameter(it) ==
    Bind(decodeTokenText(it), LAMBDA n :
    IF n.st # "ok" THEN n
    ELSE Bind(decodeTextString(n.it), LAMBDA v :
         IF v.st # "ok" THEN v ELSE Ok(<<StrOf(n.val), v.val>>, v.it)))

RECURSIVE ParametersLoop(_, _)
ParametersLoop(it, parameters) ==
    Bind(decodeParameter(it), LAMBDA r :
    IF r.st = "StopIteration" THEN Ok(parameters, r.it)
    ELSE IF r.st # "ok" THEN r
         ELSE ParametersLoop(r.it, Put(parameters, r.val[1], r.val[2])))

\* reads n bytes off the cursor into a list
RECURSIVE ReadBytes(_, _, _)
ReadBytes(it, n, acc) ==
    IF n = 0 THEN Ok(acc, it)
    ELSE Bind(next(it), LAMBDA r :
         IF r.st # "ok" THEN r ELSE ReadBytes(r.it, n - 1, Append(acc, r.val)))

\* Content-general-form = Value-length Media-type *(Parameter)
decodeContentGeneralForm(it) ==
    Bind(decodeValueLength(it), LAMBDA l :
    IF l.st # "ok" THEN l
    ELSE Bind(ReadBytes(l.it, l.val, <<>>), LAMBDA b :
         IF b.st # "ok" THEN b
         ELSE Bind(decodeMediaType(PreviewIterator(b.val)), LAMBDA m :
              IF m.st # "ok" THEN Raise(m.st, b.it)
              ELSE Bind(ParametersLoop(m.it, EmptyDict), LAMBDA ps :
                   IF ps.st # "ok" THEN Raise(ps.st, b.it)
                   ELSE Ok(<<m.val, ps.val>>, b.it)))))

\* Content-type-value = Constrained-media | Content-general-form
decodeContentTypeValue(it) ==
    Bind(decodeMediaType(it), LAMBDA m :
    IF m.st = "ok" THEN Ok(<<m.val, EmptyDict>>, m.it)
    ELSE IF m.st = "DecodeError" THEN decodeContentGeneralForm(m.it) ELSE m)

encodeMediaType(content_type) ==
    IF \E c \in DOMAIN well_known_content_types : well_known_content_types[c] = content_type
    THEN encodeShortInteger(
             CHOOSE c \in DOMAIN well_known_content_types :
                 well_known_content_types[c] = content_type)
    ELSE encodeTextString(CodesOf(content_type))

\* the parameters in ascending name order (keys of the pool sorted by their codes)
RECURSIVE encodeParameters(_, _)
encodeParameters(parameters, names) ==
    IF names = {} THEN <<>>
    ELSE Bind(CHOOSE x \in names : TRUE, LAMBDA n :
         encodeTokenText(CodesOf(n)) \o encodeTextString(parameters[n])
         \o encodeParameters(parameters, names \ {n}))

encodeContentTypeValue(content_type, parameters) ==
    IF DOMAIN parameters = {}
    THEN encodeMediaType(content_type)
    ELSE Bind(encodeMediaType(content_type)
              \o encodeParameters(parameters, DOMAIN parameters), LAMBDA body :
         encodeValueLength(Len(body)) \o body)

(***************************************************************************)
(* wsp_pdu: the generic application header (token-text name, text value)   *)
(***************************************************************************)
wsp_decode_header(it) ==
    Bind(decodeTokenText(it), LAMBDA n :
    IF n.st # "ok" THEN n
    ELSE Bind(decodeTextString(n.it), LAMBDA v :
         IF v.st # "ok" THEN v ELSE Ok(<<StrOf(n.val), v.val>>, v.it)))

wsp_encode_header(name, value) ==
    encodeTokenText(CodesOf(name)) \o encodeTextString(value)

(***************************************************************************)
(* mms_pdu.py: the header field registry                                   *)
(***************************************************************************)
mms_field_names ==
    <<  <<"Bcc", "EncodedStringValue">>,
        <<"Cc", "EncodedStringValue">>,
        <<"Content-Location", "UriValue">>,
        <<"Content-Type", "ContentTypeValue">>,
        <<"Date", "DateValue">>,
        <<"Delivery-Report", "BooleanValue">>,
        <<"Delivery-Time", "None">>,
        <<"Expiry", "ExpiryValue">>,
        <<"From", "FromValue">>,
        <<"Message-Class", "MessageClassValue">>,
        <<"Message-ID", "TextString">>,
        <<"Message-Type", "MessageTypeValue">>,
        <<"MMS-Version", "VersionValue">>,
        <<"Message-Size", "LongInteger">>,
        <<"Priority", "PriorityValue">>,
        <<"Read-Reply", "BooleanValue">>,
        <<"Report-Allowed", "BooleanValue">>,
        <<"Response-Status", "ResponseStatusValue">>,
        <<"Response-Text", "EncodedStringValue">>,
        <<"Sender-Visibility", "SenderVisibilityValue">>,
        <<"Status", "StatusValue">>,
        <<"Subject", "EncodedStringValue">>,
        <<"To", "EncodedStringValue">>,
        <<"Transaction-Id", "TextString">>  >>

(***************************************************************************)
(* MMSDecoder: the value-kind decoders                                     *)
(***************************************************************************)
decodeEncodedStringValue(it) ==
    Bind(decodeValueLength(it), LAMBDA value_length :
    IF value_length.st = "DecodeError" THEN decodeTextString(value_length.it)
    ELSE IF value_length.st # "ok" THEN value_length
    ELSE Bind(decodeWellKnownCharset(value_length.it), LAMBDA charset_value :
         IF charset_value.st = "DecodeError" THEN Raise("Exception", charset_value.it)
         ELSE IF charset_value.st # "ok" THEN charset_value
         ELSE Bind(decodeTextString(charset_value.it), LAMBDA text :
              IF text.st = "DecodeError" THEN decodeTextString(text.it) ELSE text)))

decodeBooleanValue(it) ==
    Bind(preview(it), LAMBDA p :
    IF p.st # "ok" THEN p
    ELSE IF p.val \notin {128, 129}
         THEN Raise("DecodeError", reset_preview(p.it))
         ELSE Bind(next(p.it), LAMBDA n : Ok(n.val = 128, n.it)))

NotInserted == <<60, 110, 111, 116, 32, 105, 110, 115, 101, 114, 116, 101, 100, 62>>

decodeFromValue(it) ==
    Bind(decodeValueLength(it), LAMBDA value_length :
    IF value_length.st # "ok" THEN value_length
    ELSE Bind(next(value_length.it), LAMBDA byte :
         IF byte.st # "ok" THEN byte
         ELSE IF byte.val = 129 THEN Ok(NotInserted, byte.it)
              ELSE decodeEncodedStringValue(byte.it)))

class_identifiers ==
    (128 :> "Personal") @@ (129 :> "Advertisement")
    @@ (130 :> "Informational") @@ (131 :> "Auto")

decodeMessageClassValue(it) ==
    Bind(preview(it), LAMBDA p :
    IF p.st # "ok" THEN p
    ELSE IF p.val \in DOMAIN class_identifiers
         THEN Ok(class_identifiers[p.val], next(p.it).it)
         ELSE Bind(decodeTokenText(reset_preview(p.it)), LAMBDA t :
              IF t.st # "ok" THEN t ELSE Ok(StrOf(t.val), t.it)))

message_types ==
    (128 :> "m-send-req") @@ (129 :> "m-send-conf") @@ (130 :> "m-notification-ind")
    @@ (131 :> "m-notifyresp-ind") @@ (132 :> "m-retrieve-conf")
    @@ (133 :> "m-acknowledge-ind") @@ (134 :> "m-delivery-ind")

\* a variant that consumes the byte it does not recognise
decodeMessageTypeValue_consumes(it) ==
    Bind(preview(it), LAMBDA p :
    IF p.st # "ok" THEN p
    ELSE IF p.val \in DOMAIN message_types
         THEN Ok(message_types[p.val], next(p.it).it)
         ELSE Ok("<unknown>", next(p.it).it))

decodeMessageTypeValue(it) ==
    Bind(preview(it), LAMBDA p :
    IF p.st # "ok" THEN p
    ELSE IF p.val \in DOMAIN message_types
         THEN Ok(message_types[p.val], next(p.it).it)
         ELSE Ok("<unknown>", reset_preview(p.it)))

priorities == (128 :> "Low") @@ (129 :> "Normal") @@ (130 :> "High")

decodePriorityValue(it) ==
    Bind(preview(it), LAMBDA p :
    IF p.st # "ok" THEN p
    ELSE IF p.val \in DOMAIN priorities
         THEN Ok(priorities[p.val], next(p.it).it)
         ELSE Raise("DecodeError", reset_preview(p.it)))

decodeSenderVisibilityValue(it) ==
    Bind(preview(it), LAMBDA p :
    IF p.st # "ok" THEN p
    ELSE IF p.val \notin {128, 129}
         THEN Raise("DecodeError", reset_preview(p.it))
         ELSE Bind(next(p.it), LAMBDA n :
              Ok(IF n.val = 128 THEN "Hide" ELSE "Show", n.it)))

response_status_values ==
    (128 :> "Ok") @@ (129 :> "Error-unspecified") @@ (130 :> "Error-service-denied")
    @@ (131 :> "Error-message-format-corrupt")
    @@ (132 :> "Error-sending-address-unresolved")
    @@ (133 :> "Error-message-not-found") @@ (134 :> "Error-network-problem")
    @@ (135 :> "Error-content-not-accepted") @@ (136 :> "Error-unsupported-message")

decodeResponseStatusValue(it) ==
    Bind(preview(it), LAMBDA p :
    IF p.st # "ok" THEN p
    ELSE Bind(next(p.it), LAMBDA n :
         Ok(IF p.val \in DOMAIN response_status_values
            THEN response_status_values[p.val] ELSE 129, n.it)))

status_values ==
    (128 :> "Expired") @@ (129 :> "Retrieved") @@ (130 :> "Rejected")
    @@ (131 :> "Deferred") @@ (132 :> "Unrecognised")

decodeStatusValue(it) ==
    Bind(next(it), LAMBDA n :
    IF n.st # "ok" THEN n
    ELSE Ok(IF n.val \in DOMAIN status_values THEN status_values[n.val] ELSE 132, n.it))

decodeExpiryValue(it) ==
    Bind(decodeValueLength(it), LAMBDA value_length :
    IF value_length.st # "ok" THEN value_length
    ELSE Bind(next(value_length.it), LAMBDA token :
         IF token.st # "ok" THEN token
         ELSE IF token.val = 128 THEN decodeDateValue(token.it)
              ELSE IF token.val = 129 THEN decodeDeltaSecondsValue(token.it)
                   ELSE Raise("DecodeError", token.it)))

\* getattr(MMSDecoder, 'decode%s' % name)(byte_iter)
DecodeValue(name, it) ==
    CASE name = "EncodedStringValue"    -> decodeEncodedStringValue(it)
      [] name = "UriValue"              -> decodeUriValue(it)
      [] name = "ContentTypeValue"      -> decodeContentTypeValue(it)
      [] name = "DateValue"             -> decodeDateValue(it)
      [] name = "BooleanValue"          -> decodeBooleanValue(it)
      [] name = "ExpiryValue"           -> decodeExpiryValue(it)
      [] name = "FromValue"             -> decodeFromValue(it)
      [] name = "MessageClassValue"     -> decodeMessageClassValue(it)
      [] name = "TextString"            -> decodeTextString(it)
      [] name = "MessageTypeValue"      -> decodeMessageTypeValue(it)
      [] name = "VersionValue"          -> decodeVersionValue(it)
      [] name = "LongInteger"           -> decodeLongInteger(it)
      [] name = "PriorityValue"         -> decodePriorityValue(it)
      [] name = "ResponseStatusValue"   -> decodeResponseStatusValue(it)
      [] name = "SenderVisibilityValue" -> decodeSenderVisibilityValue(it)
      [] name = "StatusValue"           -> decodeStatusValue(it)
      [] OTHER                          -> Raise("AttributeError", it)

(***************************************************************************)
(* MMSDecoder: header entries                                              *)
(***************************************************************************)
\* a variant that leaves the field code on the cursor when it decodes the value
decodeMMSHeader_keeps_code(it) ==
    Bind(preview(it), LAMBDA p :
    IF p.st # "ok" THEN p
    ELSE Bind(decodeShortIntegerFromByte(p.val), LAMBDA byte :
         IF byte.st # "ok" THEN Raise("DecodeError", p.it)
         ELSE IF byte.val \notin DOMAIN mms_field_names
              THEN Raise("DecodeError", reset_preview(p.it))
              ELSE Bind(mms_field_names[byte.val][1], LAMBDA mms_field_name :
                   Bind(DecodeValue(mms_field_names[byte.val][2], reset_preview(p.it)),
                        LAMBDA mms_value :
                   IF mms_value.st = "ok"
                   THEN Ok(<<mms_field_name, mms_value.val>>, mms_value.it)
                   ELSE IF mms_value.st = "DecodeError"
                        THEN Raise("DecodeError", mms_value.it)
                        ELSE Raise("RuntimeError", mms_value.it)))))

decodeMMSHeader(it) ==
    Bind(preview(it), LAMBDA p :
    IF p.st # "ok" THEN p
    ELSE Bind(decodeShortIntegerFromByte(p.val), LAMBDA byte :
         IF byte.st # "ok" THEN Raise("DecodeError", p.it)
         ELSE IF byte.val \notin DOMAIN mms_field_names
              THEN Raise("DecodeError", reset_preview(p.it))
              ELSE Bind(mms_field_names[byte.val][1], LAMBDA mms_field_name :
                   Bind(DecodeValue(mms_field_names[byte.val][2], next(p.it).it),
                        LAMBDA mms_value :
                   IF mms_value.st = "ok"
                   THEN Ok(<<mms_field_name, mms_value.val>>, mms_value.it)
                   ELSE IF mms_value.st = "DecodeError"
                        THEN Raise("DecodeError", mms_value.it)
                        ELSE Raise("RuntimeError", mms_value.it)))))

\* a variant whose fallback catches every error decodeMMSHeader raises
decode_header_catch_all(it) ==
    Bind(decodeMMSHeader(it), LAMBDA r :
    IF r.st # "ok" THEN wsp_decode_header(r.it) ELSE r)

decode_header(it) ==
    Bind(decodeMMSHeader(it), LAMBDA r :
    IF r.st = "DecodeError" THEN wsp_decode_header(r.it) ELSE r)

(***************************************************************************)
(* MMSDecoder: the header block                                            *)
(***************************************************************************)
\* a variant of the loop that does not stop at Content-Type
RECURSIVE HeaderLoop_no_stop(_, _, _)
HeaderLoop_no_stop(it, headers, bound) ==
    Bind(decode_header(it), LAMBDA r :
    IF r.st = "StopIteration"
    THEN [st |-> "ok", headers |-> headers, bound |-> bound, it |-> r.it]
    ELSE IF r.st # "ok"
    THEN [st |-> r.st, headers |-> headers, bound |-> bound, it |-> r.it]
    ELSE HeaderLoop_no_stop(r.it, Put(headers, r.val[1], r.val[2]), r.val))

\* the while loop of decode_message_header; bound is <<>> while the local
\* variables header, value are unassigned, <<header, value>> afterwards
RECURSIVE HeaderLoop(_, _, _)
HeaderLoop(it, headers, bound) ==
    Bind(decode_header(it), LAMBDA r :
    IF r.st = "StopIteration"
    THEN [st |-> "ok", headers |-> headers, bound |-> bound, it |-> r.it]
    ELSE IF r.st # "ok"
    THEN [st |-> r.st, headers |-> headers, bound |-> bound, it |-> r.it]
    ELSE IF r.val[1] = mms_field_names[4][1]
    THEN [st |-> "ok", headers |-> headers, bound |-> r.val, it |-> r.it]
    ELSE HeaderLoop(r.it, Put(headers, r.val[1], r.val[2]), r.val))

\* returns the header map in val and the cursor (data_iter) in it
decode_message_header(data) ==
    Bind(HeaderLoop(PreviewIterator(data), EmptyDict, <<>>), LAMBDA loop :
    IF loop.st # "ok" THEN [st |-> loop.st, val |-> loop.headers, it |-> loop.it]
    ELSE IF loop.bound = <<>>
    THEN [st |-> "UnboundLocalError", val |-> loop.headers, it |-> loop.it]
    ELSE IF loop.bound[1] = "Content-Type"
    THEN Ok(Put(loop.headers, loop.bound[1], loop.bound[2]), loop.it)
    ELSE Ok(loop.headers, loop.it))

(***************************************************************************)
(* MMSDecoder: the body block                                              *)
(***************************************************************************)
\* message.DataPart after set_data, content_type_parameters and headers are set
DataPart(data, content_type, ct_parameters, headers) ==
    [data |-> data, content_type |-> content_type,
     content_type_parameters |-> ct_parameters, headers |-> headers]

RECURSIVE PartHeadersLoop(_, _)
PartHeadersLoop(ct_iter, headers) ==
    Bind(decode_header(ct_iter), LAMBDA r :
    IF r.st = "StopIteration" THEN Ok(headers, r.it)
    ELSE IF r.st # "ok" THEN r
    ELSE PartHeadersLoop(r.it, Put(headers, r.val[1], r.val[2])))

\* a variant that reads the content type and the headers of a part off the main
\* cursor instead of the headers_len bytes set apart for them
decode_part_unbounded(data_iter) ==
    Bind(decodeUintvar(data_iter), LAMBDA headers_len :
    IF headers_len.st # "ok" THEN headers_len
    ELSE Bind(decodeUintvar(headers_len.it), LAMBDA data_len :
    IF data_len.st # "ok" THEN data_len
    ELSE Bind(decodeContentTypeValue(data_len.it), LAMBDA ct :
    IF ct.st # "ok" THEN ct
    ELSE Bind(PartHeadersLoop(ct.it, "Content-Type" :> ct.val), LAMBDA headers :
    IF headers.st # "ok" THEN headers
    ELSE Bind(ReadBytes(headers.it, data_len.val, <<>>), LAMBDA data :
    IF data.st # "ok" THEN data
    ELSE Ok(DataPart(data.val, ct.val[1], ct.val[2], headers.val), data.it))))))

\* one pass of the for loop over the parts: the DataPart and the main cursor after it
decode_part(data_iter) ==
    Bind(decodeUintvar(data_iter), LAMBDA headers_len :
    IF headers_len.st # "ok" THEN headers_len
    ELSE Bind(decodeUintvar(headers_len.it), LAMBDA data_len :
    IF data_len.st # "ok" THEN data_len
    ELSE Bind(ReadBytes(data_len.it, headers_len.val, <<>>), LAMBDA ct_field_bytes :
    IF ct_field_bytes.st # "ok" THEN ct_field_bytes
    ELSE Bind(decodeContentTypeValue(PreviewIterator(ct_field_bytes.val)), LAMBDA ct :
    IF ct.st # "ok" THEN Raise(ct.st, ct_field_bytes.it)
    ELSE Bind(PartHeadersLoop(ct.it, "Content-Type" :> ct.val), LAMBDA headers :
    IF headers.st # "ok" THEN Raise(headers.st, ct_field_bytes.it)
    ELSE Bind(ReadBytes(ct_field_bytes.it, data_len.val, <<>>), LAMBDA data :
    IF data.st # "ok" THEN data
    ELSE Ok(DataPart(data.val, ct.val[1], ct.val[2], headers.val), data.it)))))))

RECURSIVE PartsLoop(_, _, _)
PartsLoop(data_iter, num_entries, parts) ==
    IF num_entries = 0 THEN Ok(parts, data_iter)
    ELSE Bind(decode_part(data_iter), LAMBDA part :
         IF part.st # "ok" THEN [st |-> part.st, val |-> parts, it |-> part.it]
         ELSE PartsLoop(part.it, num_entries - 1, Append(parts, part.val)))

\* returns the data parts added to the message in val
decode_message_body(data_iter) ==
    Bind(decodeUintvar(data_iter), LAMBDA num_entries :
    IF num_entries.st = "StopIteration" THEN Ok(<<>>, num_entries.it)
    ELSE IF num_entries.st # "ok" THEN num_entries
    ELSE PartsLoop(num_entries.it, num_entries.val, <<>>))

(***************************************************************************)
(* MMSDecoder.decode_data                                                  *)
(***************************************************************************)
decode_data(data) ==
    Bind(decode_message_header(data), LAMBDA body_iter :
    IF body_iter.st # "ok" THEN Raise(body_iter.st, body_iter.it)
    ELSE Bind(decode_message_body(body_iter.it), LAMBDA body :
         IF body.st # "ok" THEN Raise(body.st, body.it)
         ELSE Ok([headers |-> body_iter.val, data_parts |-> body.val], body.it)))

(***************************************************************************)
(* MMSEncoder: the value-kind encoders.  An encoder returns [st, val]:     *)
(* st is "ok" or the exception raised, val the encoded bytes.              *)
(***************************************************************************)
Bytes(b) == [st |-> "ok", val |-> b]

Fail(e) == [st |-> e, val |-> <<>>]

encodeEncodedStringValue(string_value) == encodeTextString(string_value)

\* a variant that leaves the address-present token out of the length
encodeFromValue_short_length(from_value) ==
    IF Len(from_value) = 0
    THEN encodeValueLength(1) \o <<129>>
    ELSE Bind(encodeEncodedStringValue(from_value), LAMBDA encoded_address :
         encodeValueLength(Len(encoded_address)) \o <<128>> \o encoded_address)

encodeFromValue(from_value) ==
    IF Len(from_value) = 0
    THEN encodeValueLength(1) \o <<129>>
    ELSE Bind(encodeEncodedStringValue(from_value), LAMBDA encoded_address :
         encodeValueLength(Len(encoded_address) + 1) \o <<128>> \o encoded_address)

message_type_codes ==
    ("m-send-req" :> 128) @@ ("m-send-conf" :> 129) @@ ("m-notification-ind" :> 130)
    @@ ("m-notifyresp-ind" :> 131) @@ ("m-retrieve-conf" :> 132)
    @@ ("m-acknowledge-ind" :> 133) @@ ("m-delivery-ind" :> 134)

encodeMessageTypeValue(message_type) ==
    <<IF message_type \in DOMAIN message_type_codes
      THEN message_type_codes[message_type] ELSE 128>>

encodeBooleanValue(value) == <<IF value THEN 128 ELSE 129>>

\* getattr(MMSEncoder, 'encode%s' % expected_type)(header_value)
EncodeValue(expected_type, header_value) ==
    CASE expected_type = "EncodedStringValue" -> Bytes(encodeEncodedStringValue(header_value))
      [] expected_type = "FromValue"          -> Bytes(encodeFromValue(header_value))
      [] expected_type = "MessageTypeValue"   -> Bytes(encodeMessageTypeValue(header_value))
      [] expected_type = "TextString"         -> Bytes(encodeTextString(header_value))
      [] expected_type = "UriValue"           -> Bytes(encodeTextString(header_value))
      [] expected_type = "VersionValue"       -> Bytes(encodeVersionValue(header_value))
      [] expected_type = "BooleanValue"       -> Bytes(encodeBooleanValue(header_value))
      [] expected_type = "ContentTypeValue"   -> Fail("TypeError")
      [] OTHER                                -> Fail("AttributeError")

IsMMSField(header_field_name) ==
    \E n \in DOMAIN mms_field_names : mms_field_names[n][1] = header_field_name

AssignedNumber(header_field_name) ==
    CHOOSE n \in DOMAIN mms_field_names : mms_field_names[n][1] = header_field_name

encode_header(header_field_name, header_value) ==
    IF IsMMSField(header_field_name)
    THEN Bind(AssignedNumber(header_field_name), LAMBDA assigned_number :
         Bind(EncodeValue(mms_field_names[assigned_number][2], header_value), LAMBDA ret :
         IF ret.st = "ok"
         THEN Bytes(encodeShortInteger(assigned_number) \o ret.val)
         ELSE Fail(ret.st)))
    ELSE Bytes(wsp_encode_header(header_field_name, header_value))

encodeMMSFieldName(field_name) ==
    IF IsMMSField(field_name)
    THEN Bytes(encodeShortInteger(AssignedNumber(field_name)))
    ELSE Fail("EncodeError")

(***************************************************************************)
(* MMSEncoder.encode_message_header                                        *)
(*                                                                         *)
(* headers_to_encode is the Message's own header dict (an alias, not a     *)
(* copy): the result carries the dict as the call leaves it.  trans_id is  *)
(* the value of random.randint, order the iteration order of the dict in   *)
(* the loop over the remaining headers.  entries lists the header entries  *)
(* in the order they are appended to message_header.                       *)
(***************************************************************************)
HeaderResult(st, headers, entries) ==
    [st |-> st, headers |-> headers, entries |-> entries]

\* a variant that lets a value given under the canonical name stand
Alias_keeps_canonical(headers, hdr, clean_header) ==
    IF Has(headers, hdr)
    THEN IF Has(headers, clean_header) THEN Del(headers, hdr)
         ELSE Del(Put(headers, clean_header, headers[hdr]), hdr)
    ELSE headers

Alias(headers, hdr, clean_header) ==
    IF Has(headers, hdr)
    THEN Del(Put(headers, clean_header, headers[hdr]), hdr)
    ELSE headers

NormalizeAliases(headers) ==
    Alias(Alias(Alias(headers, "X-Mms-Message-Type", "Message-Type"),
                "X-Mms-Transaction-Id", "Transaction-Id"),
          "X-Mms-Version", "MMS-Version")

address_types == {"To", "Cc", "Bc"}

DefaultMessageType(headers) ==
    IF ~Has(headers, "Message-Type")
    THEN Put(headers, "Message-Type", "m-retrieve-conf")
    ELSE headers

MessageTypeVerification(headers) ==
    Bind(DefaultMessageType(headers), LAMBDA h :
    IF h["Message-Type"] = "m-send-req"
       /\ ~(\E address_type \in address_types : Has(h, address_type))
    THEN Put(h, "Message-Type", "m-retrieve-conf")
    ELSE h)

\* random.randint(1000, 9999)
TransIdMin == 1000
TransIdMax == 9999
TransIds == {TransIdMin, TransIdMax}

TransactionIdVerification(headers, trans_id) ==
    IF ~Has(headers, "Transaction-Id")
    THEN Put(headers, "Transaction-Id", DecimalStr(trans_id))
    ELSE headers

DefaultVersion == <<49, 46, 48>>

\* a variant that fills in "1.1" for an absent MMS-Version
VersionVerification_1_1(headers) ==
    IF ~Has(headers, "MMS-Version")
    THEN Put(headers, "MMS-Version", <<49, 46, 49>>)
    ELSE headers

VersionVerification(headers) ==
    IF ~Has(headers, "MMS-Version")
    THEN Put(headers, "MMS-Version", DefaultVersion)
    ELSE headers

\* a variant that emits Transaction-Id ahead of Message-Type
first_headers_swapped == <<"Transaction-Id", "Message-Type", "MMS-Version">>

first_headers == <<"Message-Type", "Transaction-Id", "MMS-Version">>

\* for hdr in (...): message_header.extend(encode_header(...)); del headers[hdr]
RECURSIVE EncodeFirst(_, _, _)
EncodeFirst(headers, i, entries) ==
    IF i > Len(first_headers) THEN HeaderResult("ok", headers, entries)
    ELSE Bind(first_headers[i], LAMBDA hdr :
         Bind(encode_header(hdr, headers[hdr]), LAMBDA e :
         IF e.st # "ok" THEN HeaderResult(e.st, headers, entries)
         ELSE EncodeFirst(Del(headers, hdr), i + 1,
                          Append(entries, [name |-> hdr, bytes |-> e.val]))))

\* for hdr in headers_to_encode: if hdr != 'Content-Type': ...
RECURSIVE EncodeRemaining(_, _, _, _)
EncodeRemaining(headers, order, i, entries) ==
    IF i > Len(order) THEN HeaderResult("ok", headers, entries)
    ELSE Bind(order[i], LAMBDA hdr :
         IF hdr = "Content-Type"
         THEN EncodeRemaining(headers, order, i + 1, entries)
         ELSE Bind(encode_header(hdr, headers[hdr]), LAMBDA e :
              IF e.st # "ok" THEN HeaderResult(e.st, headers, entries)
              ELSE EncodeRemaining(headers, order, i + 1,
                                   Append(entries, [name |-> hdr, bytes |-> e.val]))))

EncodeContentType(headers, entries) ==
    IF ~Has(headers, "Content-Type") THEN HeaderResult("KeyError", headers, entries)
    ELSE Bind(encodeMMSFieldName("Content-Type"), LAMBDA name :
         Bind(encodeContentTypeValue(headers["Content-Type"][1],
                                     headers["Content-Type"][2]), LAMBDA value :
         IF name.st # "ok" THEN HeaderResult(name.st, headers, entries)
         ELSE HeaderResult("ok", headers,
                  Append(entries, [name |-> "Content-Type",
                                   bytes |-> name.val \o value]))))

\* the iteration orders a dict with these keys can have
Orders(keys) ==
    {o \in [1..Cardinality(keys) -> keys] : \A i, j \in DOMAIN o : i # j => o[i] # o[j]}

RECURSIVE Flatten(_)
Flatten(entries) ==
    IF entries = <<>> THEN <<>> ELSE Head(entries).bytes \o Flatten(Tail(entries))

\* the dict after the aliases are normalized and the defaults filled in
Verified(headers_to_encode, trans_id) ==
    VersionVerification(
        TransactionIdVerification(
            MessageTypeVerification(NormalizeAliases(headers_to_encode)), trans_id))

encode_message_header(headers_to_encode, trans_id, order) ==
    Bind(EncodeFirst(Verified(headers_to_encode, trans_id), 1, <<>>), LAMBDA first :
    IF first.st # "ok" THEN first
    ELSE Bind(EncodeRemaining(first.headers, order, 1, first.entries), LAMBDA remaining :
         IF remaining.st # "ok" THEN remaining
         ELSE EncodeContentType(remaining.headers, remaining.entries)))

\* the keys left in the dict when the loop over the remaining headers starts
RemainingKeys(headers) ==
    (DOMAIN NormalizeAliases(headers)) \ {"Message-Type", "Transaction-Id", "MMS-Version"}

\* The iteration orders the loop can see.  The loop skips Content-Type, so where
\* the dict yields it makes no difference: it is put first.
IterationOrders(headers) ==
    {(IF Has(headers, "Content-Type") THEN <<"Content-Type">> ELSE <<>>) \o o :
        o \in Orders(RemainingKeys(headers) \ {"Content-Type"})}

\* random.randint is called only when no Transaction-Id is given
RandomDraws(headers) ==
    IF Has(NormalizeAliases(headers), "Transaction-Id") THEN {0} ELSE TransIds

(***************************************************************************)
(* message.MMSMessage and its pages, as far as the encoder reads them      *)
(***************************************************************************)
\* a page slot (slide.image, slide.audio, slide.text) is None, written <<>>,
\* or a tuple whose first element is the DataPart
Page(image, audio, text) == [image |-> image, audio |-> audio, text |-> text]

Message(headers, pages, data_parts) ==
    [headers |-> headers, _pages |-> pages, _data_parts |-> data_parts]

number_of_parts(page) ==
    (IF page.image # <<>> THEN 1 ELSE 0) + (IF page.audio # <<>> THEN 1 ELSE 0)
    + (IF page.text # <<>> THEN 1 ELSE 0)

\* the presentation markup synthesized from the page structure: one element per page
smil(pages) == <<60>> \o [i \in 1..Len(pages) |-> 112] \o <<62>>

ContentId == <<60, 48, 48, 48, 48, 62>>

(***************************************************************************)
(* MMSEncoder.encode_message_body                                          *)
(***************************************************************************)
RECURSIVE SumParts(_)
SumParts(pages) ==
    IF pages = <<>> THEN 0 ELSE number_of_parts(Head(pages)) + SumParts(Tail(pages))

\* for part_tuple in (slide.image, slide.audio, slide.text): if not None: append
SlideParts(slide) ==
    (IF slide.image # <<>> THEN <<slide.image[1]>> ELSE <<>>)
    \o (IF slide.audio # <<>> THEN <<slide.audio[1]>> ELSE <<>>)
    \o (IF slide.text # <<>> THEN <<slide.text[1]>> ELSE <<>>)

RECURSIVE PageParts(_)
PageParts(pages) ==
    IF pages = <<>> THEN <<>> ELSE SlideParts(Head(pages)) \o PageParts(Tail(pages))

smil_part(message) ==
    DataPart(smil(message._pages), "application/smil", EmptyDict,
             ("Content-Type" :> <<"application/smil", EmptyDict>>)
             @@ ("Content-ID" :> ContentId))

\* the list the loop over the parts runs through
PartList(message) == <<smil_part(message)>> \o PageParts(message._pages)

RECURSIVE encoded_part_headers(_, _)
encoded_part_headers(headers, names) ==
    IF names = {} THEN <<>>
    ELSE Bind(CHOOSE x \in names : TRUE, LAMBDA hdr :
         (IF hdr = "Content-Type" THEN <<>> ELSE wsp_encode_header(hdr, headers[hdr]))
         \o encoded_part_headers(headers, names \ {hdr}))

\* a variant that leaves the other headers out of the headers-length it writes
encode_part_content_type_len(part) ==
    Bind(encodeContentTypeValue(part.headers["Content-Type"][1],
                                part.headers["Content-Type"][2]),
         LAMBDA part_content_type :
    Bind(encoded_part_headers(part.headers, DOMAIN part.headers), LAMBDA part_headers :
    Bind(Len(part_content_type), LAMBDA headers_len :
    [headers_len |-> headers_len, data_len |-> Len(part.data),
     content_type |-> part_content_type, headers |-> part_headers,
     data |-> part.data,
     bytes |-> encodeUintvar(headers_len) \o encodeUintvar(Len(part.data))
               \o part_content_type \o part_headers \o part.data])))

\* one pass of the loop over the parts: the fields written, in the order written
encode_part(part) ==
    Bind(encodeContentTypeValue(part.headers["Content-Type"][1],
                                part.headers["Content-Type"][2]),
         LAMBDA part_content_type :
    Bind(encoded_part_headers(part.headers, DOMAIN part.headers), LAMBDA part_headers :
    Bind(Len(part_content_type) + Len(part_headers), LAMBDA headers_len :
    [headers_len |-> headers_len, data_len |-> Len(part.data),
     content_type |-> part_content_type, headers |-> part_headers,
     data |-> part.data,
     bytes |-> encodeUintvar(headers_len) \o encodeUintvar(Len(part.data))
               \o part_content_type \o part_headers \o part.data])))

num_entries(message) ==
    1 + SumParts(message._pages) + Len(message._data_parts)

encode_message_body(message) ==
    Bind(PartList(message), LAMBDA parts :
    Bind([i \in 1..Len(parts) |-> encode_part(parts[i])], LAMBDA records :
    [st |-> "ok", num_entries |-> num_entries(message), parts |-> parts,
     records |-> records,
     val |-> encodeUintvar(num_entries(message)) \o Flatten(records)]))

(***************************************************************************)
(* MMSEncoder.encode                                                       *)
(***************************************************************************)
encode(mms_message, trans_id, order) ==
    Bind(encode_message_header(mms_message.headers, trans_id, order), LAMBDA header :
    Bind([mms_message EXCEPT !.headers = header.headers], LAMBDA message :
    IF header.st # "ok"
    THEN [st |-> header.st, val |-> <<>>, header |-> header,
          body |-> <<>>, message |-> message]
    ELSE Bind(encode_message_body(message), LAMBDA body :
         [st |-> "ok", val |-> Flatten(header.entries) \o body.val,
          header |-> header, body |-> body, message |-> message])))

(***************************************************************************)
(* Bounds of the model and the inputs drawn within them                    *)
(***************************************************************************)
MaxExtra == 2        \* headers of a Message besides the first three and Content-Type
MaxPages == 1        \* pages of a Message
MaxDataParts == 1    \* raw data parts attached to a Message
MaxChunks == 3       \* fragments a decoder input buffer is put together from

RelatedType == <<"application/vnd.wap.multipart.related", EmptyDict>>

ExtraHeaders ==
    ("To" :> <<65>>) @@ ("Cc" :> <<66>>) @@ ("Bcc" :> <<67>>) @@ ("From" :> <<68>>)
    @@ ("X-A" :> <<66>>)

\* each of these is a set of dicts with at most one key
MessageTypeChoices ==
    {EmptyDict} \cup {"Message-Type" :> t :
                         t \in {"m-send-req", "m-retrieve-conf", "m-notification-ind"}}

TransactionIdChoices == {EmptyDict, "Transaction-Id" :> <<49, 50>>}

VersionChoices == {EmptyDict, "MMS-Version" :> <<49, 46, 49>>}

ContentTypeChoices == {EmptyDict, "Content-Type" :> RelatedType}

AliasChoices ==
    {EmptyDict, "X-Mms-Message-Type" :> "m-send-req",
     "X-Mms-Transaction-Id" :> <<57>>, "X-Mms-Version" :> <<49, 46, 50>>}

ExtraChoices ==
    {[k \in ks |-> ExtraHeaders[k]] :
        ks \in {s \in SUBSET (DOMAIN ExtraHeaders) : Cardinality(s) <= MaxExtra}}

HeaderSets ==
    {mt @@ ti @@ ve @@ ct @@ al @@ ex :
        mt \in MessageTypeChoices, ti \in TransactionIdChoices, ve \in VersionChoices,
        ct \in ContentTypeChoices, al \in AliasChoices, ex \in ExtraChoices}

PlainPart(data, content_type) ==
    DataPart(data, content_type, EmptyDict,
             "Content-Type" :> <<content_type, EmptyDict>>)

ImagePart == PlainPart(<<1, 2>>, "image/jpeg")
AudioPart == PlainPart(<<3>>, "audio/amr")
TextPart == PlainPart(<<72, 105>>, "text/plain")

\* the i-th raw data part: a text part with a header of its own
RawPart(i) ==
    DataPart(<<200 + i>>, "text/plain", EmptyDict,
             ("Content-Type" :> <<"text/plain", EmptyDict>>) @@ ("X-A" :> <<48 + i>>))

PageChoices ==
    {Page(i, a, t) : i \in {<<>>, <<ImagePart>>}, a \in {<<>>, <<AudioPart>>},
                     t \in {<<>>, <<TextPart>>}}

PageSeqs == UNION {[1..n -> PageChoices] : n \in 0..MaxPages}

DataPartSeqs == {[i \in 1..n |-> RawPart(i)] : n \in 0..MaxDataParts}

BodyHeaders ==
    ("Message-Type" :> "m-send-req") @@ ("Transaction-Id" :> <<49, 50>>)
    @@ ("MMS-Version" :> <<49, 46, 48>>) @@ ("To" :> <<65>>)
    @@ ("Content-Type" :> RelatedType)

Messages ==
    {Message(h, <<>>, <<>>) : h \in HeaderSets}
    \cup {Message(BodyHeaders, p, d) : p \in PageSeqs, d \in DataPartSeqs}

\* fragments of wire data: header entries, well formed and not, and body pieces
Chunks ==
    {<<140, 128>>,                   \* Message-Type: m-send-req
     <<152, 65, 0>>,                 \* Transaction-Id: "A"
     <<132, 179>>,                   \* Content-Type: application/vnd.wap.multipart.related
     <<134, 127>>,                   \* Delivery-Report with a byte that is no boolean
     <<135>>,                        \* Delivery-Time, which has no value kind
     <<88, 0, 66, 0>>,               \* application header "X": "B"
     <<2, 127>>,                     \* a value-length and a token that is none
     <<129>>,                        \* the octet of No, Normal, Show, Retrieved
     <<1>>,                          \* a part count of 1
     <<2>>,                          \* a part count of 2
     <<1, 1, 131, 7>>,               \* a part: text/plain, one byte of payload
     <<3, 1, 131, 88, 0, 66, 0, 7>>, \* a part whose headers-length cuts an entry short
     <<140>>,                        \* the field code of Message-Type alone
     <<130>>,                        \* the octet of m-notification-ind
     <<3, 131, 65, 0>>               \* an encoded string: length, charset us-ascii, "A"
    }

RECURSIVE Concat(_)
Concat(chunks) == IF chunks = <<>> THEN <<>> ELSE Head(chunks) \o Concat(Tail(chunks))

Buffers == {Concat(cs) : cs \in UNION {[1..n -> Chunks] : n \in 0..MaxChunks}}

NoResult == [st |-> "none", val |-> <<>>, it |-> PreviewIterator(<<>>)]

(***************************************************************************)
(* The encoder: a Message is encoded, possibly again, and the bytes are    *)
(* decoded back                                                            *)
(***************************************************************************)
Init ==
    /\ op = "init"
    /\ msg \in Messages
    /\ wire = <<>>
    /\ iter = PreviewIterator(<<>>)
    /\ result = NoResult
    /\ before = msg

\* MMSEncoder.encode(msg)
Encode ==
    /\ op = "init" \/ (op = "encode" /\ result.st = "ok")
    /\ \E trans_id \in RandomDraws(msg.headers), order \in IterationOrders(msg.headers) :
          /\ result' = encode(msg, trans_id, order)
          /\ op' = "encode"
          /\ before' = msg
          /\ msg' = result'.message
          /\ wire' = result'.val
          /\ iter' = PreviewIterator(wire')

\* MMSDecoder.decode_data(wire) on the bytes encode returned
Decode ==
    /\ op = "encode"
    /\ result.st = "ok"
    /\ result' = decode_data(wire)
    /\ op' = "decode_data"
    /\ iter' = result'.it
    /\ UNCHANGED <<msg, wire, before>>

Next == Encode \/ Decode

Spec == Init /\ [][Next]_vars

(***************************************************************************)
(* The decoder on arbitrary buffers                                        *)
(***************************************************************************)
InitDecode ==
    /\ op = "init"
    /\ msg = Message(EmptyDict, <<>>, <<>>)
    /\ wire \in Buffers
    /\ iter = PreviewIterator(wire)
    /\ result = NoResult
    /\ before = iter

\* MMSDecoder.decode_data(wire)
DecodeData ==
    /\ op = "init"
    /\ result' = decode_data(wire)
    /\ op' = "decode_data"
    /\ iter' = result'.it
    /\ before' = iter
    /\ UNCHANGED <<msg, wire>>

\* MMSDecoder.decode_message_header() with _mms_data = wire
DecodeMessageHeader ==
    /\ op = "init"
    /\ result' = decode_message_header(wire)
    /\ op' = "decode_message_header"
    /\ iter' = result'.it
    /\ before' = iter
    /\ UNCHANGED <<msg, wire>>

\* MMSDecoder.decode_message_body(iter): on the cursor decode_message_header
\* returned, or on a cursor over a buffer that holds a body alone
DecodeMessageBody ==
    /\ \/ op = "init"
       \/ op = "decode_message_header" /\ result.st = "ok"
    /\ result' = decode_message_body(iter)
    /\ op' = "decode_message_body"
    /\ iter' = result'.it
    /\ before' = iter
    /\ UNCHANGED <<msg, wire>>

\* MMSDecoder.decode_header(iter): one header entry
DecodeHeader ==
    /\ op \in {"init", "decode_header"}
    /\ op = "decode_header" => result.st = "ok"
    /\ result' = decode_header(iter)
    /\ op' = "decode_header"
    /\ iter' = result'.it
    /\ before' = iter
    /\ UNCHANGED <<msg, wire>>

\* MMSDecoder.decodeMMSHeader(iter): one header entry, without the fallback
DecodeMMSHeader ==
    /\ op \in {"init", "decode_header"}
    /\ result' = decodeMMSHeader(iter)
    /\ op' = "decodeMMSHeader"
    /\ iter' = result'.it
    /\ before' = iter
    /\ UNCHANGED <<msg, wire>>

ValueKinds == {mms_field_names[n][2] : n \in DOMAIN mms_field_names}

\* one of the value-kind decoders, called on the cursor
DecodeValueKind ==
    /\ op \in {"init", "decode_header"}
    /\ \E name \in ValueKinds \ {"None"} :
          /\ result' = DecodeValue(name, iter)
          /\ op' = "decode" \o name
          /\ iter' = result'.it
    /\ before' = iter
    /\ UNCHANGED <<msg, wire>>

NextDecode ==
    \/ DecodeData
    \/ DecodeMessageHeader
    \/ DecodeMessageBody
    \/ DecodeHeader
    \/ DecodeMMSHeader
    \/ DecodeValueKind

SpecDecode == InitDecode /\ [][NextDecode]_vars

(***************************************************************************)
(* Properties of the encoder, stated over Spec                             *)
(***************************************************************************)
ToCcBcc == {"To", "Cc", "Bcc"}

\* the header map the caller handed to encode, read under the canonical names
Supplied == NormalizeAliases(before.headers)

EntryNames(entries) == [i \in DOMAIN entries |-> entries[i].name]

\* the value an emitted header entry carries, read back from its bytes
EmittedValue(entries, name) ==
    decode_header(PreviewIterator(
        entries[CHOOSE i \in DOMAIN entries : entries[i].name = name].bytes)).val[2]

\* the part list of a Message: the presentation part, the parts of the pages
\* page by page, then the raw data parts
MessageParts(message) ==
    <<smil_part(message)>> \o PageParts(message._pages) \o message._data_parts

\* a Message that carries the first three headers and Content-Type under their
\* canonical names and, when it is an m-send-req, a destination
WellFormed(message) ==
    /\ {"Message-Type", "Transaction-Id", "MMS-Version", "Content-Type"}
          \subseteq DOMAIN message.headers
    /\ \A k \in DOMAIN message.headers :
          k \notin {"X-Mms-Message-Type", "X-Mms-Transaction-Id", "X-Mms-Version"}
    /\ message.headers["Message-Type"] = "m-send-req"
          => \E a \in ToCcBcc : Has(message.headers, a)

\* C1: decoding the bytes encode produced for a well-formed Message succeeds and
\* gives back the header values and the data parts of the Message, in order
C1_RoundTrip ==
    (op = "decode_data" /\ WellFormed(before))
        => /\ result.st = "ok"
           /\ result.val.headers = before.headers
           /\ result.val.data_parts = MessageParts(before)

\* the round trip does hold for the Messages the encoder handles as described:
\* a destination in To or Cc and no raw data parts
RoundTripHolds ==
    (op = "decode_data" /\ WellFormed(before) /\ before._data_parts = <<>>
     /\ (Has(before.headers, "To") \/ Has(before.headers, "Cc")
         \/ before.headers["Message-Type"] # "m-send-req"))
        => /\ result.st = "ok"
           /\ result.val.headers = before.headers
           /\ result.val.data_parts = MessageParts(before)

\* every emitted entry reads back under the name it was emitted for
EntriesReadBack(entries) ==
    \A i \in DOMAIN entries :
        Bind(decode_header(PreviewIterator(entries[i].bytes)), LAMBDA r :
             r.st = "ok" /\ r.val[1] = entries[i].name /\ Exhausted(r.it))

HeaderOrder(entries, names) ==
    /\ Len(names) >= 4
    /\ SubSeq(names, 1, 3) = <<"Message-Type", "Transaction-Id", "MMS-Version">>
    /\ names[Len(names)] = "Content-Type"
    /\ \A i, j \in DOMAIN names : i # j => names[i] # names[j]
    /\ {names[i] : i \in DOMAIN names}
          = DOMAIN Supplied \cup {"Message-Type", "Transaction-Id", "MMS-Version"}
    /\ EntriesReadBack(entries)
    /\ SubSeq(wire, 1, Len(Flatten(entries))) = Flatten(entries)

\* C3: the header block encode_message_header emits starts with Message-Type,
\* Transaction-Id, MMS-Version in this order, ends with Content-Type, and holds
\* every header of the map exactly once
C3_HeaderOrder ==
    (op = "encode" /\ result.st = "ok")
        => HeaderOrder(result.header.entries, EntryNames(result.header.entries))

\* C3 witness: a header block with two headers between the first three and
\* Content-Type has been emitted
C3_Witness ==
    /\ op = "encode" /\ result.st = "ok"
    /\ Len(result.header.entries) = 6
    /\ ~Has(before.headers, "Transaction-Id")
    /\ Has(before.headers, "X-A")

\* C4: an m-send-req is emitted as m-retrieve-conf if and only if none of To,
\* Cc, Bcc is present
C4_DowngradeIff ==
    (op = "encode" /\ result.st = "ok" /\ Has(Supplied, "Message-Type")
     /\ Supplied["Message-Type"] = "m-send-req")
        => ((EmittedValue(result.header.entries, "Message-Type") = "m-retrieve-conf")
               <=> ~(\E a \in ToCcBcc : Has(Supplied, a)))

\* the encoder looks for a destination under the names To, Cc and Bc
DowngradeAsCoded ==
    (op = "encode" /\ result.st = "ok" /\ Has(Supplied, "Message-Type")
     /\ Supplied["Message-Type"] = "m-send-req")
        => ((EmittedValue(result.header.entries, "Message-Type") = "m-retrieve-conf")
               <=> ~(\E a \in {"To", "Cc", "Bc"} : Has(Supplied, a)))

IsFourDigits(str) ==
    /\ Len(str) = 4
    /\ \A i \in 1..4 : IsDigit(str[i])
    /\ str[1] # 48

Defaults(entries) ==
    /\ ~Has(Supplied, "Message-Type")
          => EmittedValue(entries, "Message-Type") = "m-retrieve-conf"
    /\ IF Has(Supplied, "Transaction-Id")
       THEN EmittedValue(entries, "Transaction-Id") = Supplied["Transaction-Id"]
       ELSE IsFourDigits(EmittedValue(entries, "Transaction-Id"))
    /\ IF Has(Supplied, "MMS-Version")
       THEN EmittedValue(entries, "MMS-Version") = Supplied["MMS-Version"]
       ELSE EmittedValue(entries, "MMS-Version") = <<49, 46, 48>>

\* C5: encoding never fails for a missing Message-Type, Transaction-Id or
\* MMS-Version: an absent Message-Type is emitted as m-retrieve-conf, an absent
\* Transaction-Id as a decimal string of four digits, an absent MMS-Version as
\* "1.0", and a supplied Transaction-Id or MMS-Version is emitted unchanged
C5_Defaults ==
    op = "encode"
        => /\ result.st = "ok" <=> Has(before.headers, "Content-Type")
           /\ result.st = "ok" => Defaults(result.header.entries)

\* C5 witness: a Message with none of the three headers has been encoded
C5_Witness ==
    /\ op = "encode" /\ result.st = "ok"
    /\ DOMAIN Supplied \cap {"Message-Type", "Transaction-Id", "MMS-Version"} = {}
    /\ EmittedValue(result.header.entries, "Transaction-Id") = <<57, 57, 57, 57>>

\* C7: the parts encode_message_body emits are the presentation part, the parts
\* of the pages in page order, then the raw data parts, and the part count it
\* writes is the number of part records
C7_PartList ==
    (op = "encode" /\ result.st = "ok")
        => /\ result.body.parts = MessageParts(before)
           /\ result.body.num_entries = Len(result.body.records)

\* without raw data parts the part list and the count are as described
PartListHolds ==
    (op = "encode" /\ result.st = "ok" /\ before._data_parts = <<>>)
        => /\ result.body.parts = MessageParts(before)
           /\ result.body.num_entries = Len(result.body.records)

(***************************************************************************)
(* Properties of the decoder, stated over SpecDecode                       *)
(***************************************************************************)
\* a cursor over data that has consumed the first pos bytes
At(data, pos) == [PreviewIterator(data) EXCEPT !.pos = pos]

\* The header entries of a buffer read one at a time from the cursor on, up to
\* and including the first entry named Content-Type.  stop tells why the walk
\* ended: "Content-Type", "end" (the buffer ends at an entry boundary) or the
\* error the entry at cursor it raised.
RECURSIVE Walk(_, _)
Walk(it, entries) ==
    IF Exhausted(it) THEN [stop |-> "end", entries |-> entries, it |-> it]
    ELSE Bind(decode_header(it), LAMBDA r :
         IF r.st # "ok" THEN [stop |-> r.st, entries |-> entries, it |-> it]
         ELSE IF r.val[1] = "Content-Type"
         THEN [stop |-> "Content-Type", it |-> r.it,
               entries |-> Append(entries, [name |-> r.val[1], value |-> r.val[2],
                                            start |-> it.pos])]
         ELSE Walk(r.it, Append(entries, [name |-> r.val[1], value |-> r.val[2],
                                          start |-> it.pos])))

\* the header map a sequence of entries leaves: a later entry replaces an earlier
\* one of the same name
RECURSIVE HeaderMap(_)
HeaderMap(entries) ==
    IF entries = <<>> THEN EmptyDict
    ELSE Put(HeaderMap(SubSeq(entries, 1, Len(entries) - 1)),
             entries[Len(entries)].name, entries[Len(entries)].value)

StopsAtContentType(w) ==
    w.stop = "Content-Type"
        => /\ result.st = "ok"
           /\ result.val = HeaderMap(w.entries)
           /\ Has(result.val, "Content-Type")
           /\ iter.pos = w.it.pos
           /\ ~iter.peek
           /\ iter.data = wire

\* C2: decode_message_header stops at the first Content-Type entry: the entries
\* before it and the Content-Type entry are in the header map, and the cursor
\* returned stands right after the Content-Type value
C2_StopsAtContentType ==
    op = "decode_message_header" => StopsAtContentType(Walk(PreviewIterator(wire), <<>>))

\* C2 witness: a header block with an entry before Content-Type (field code
\* 0x04) and bytes after it has been decoded
C2_Witness ==
    /\ op = "decode_message_header" /\ result.st = "ok"
    /\ Has(result.val, "Content-Type") /\ Has(result.val, "Message-Type")
    /\ wire[3] = 132
    /\ iter.pos = 4 /\ Len(wire) > 4

\* The parts of a body laid out by the declared lengths alone: the frame of a
\* part is two uintvars H and D, then H bytes of content type and headers, then
\* D bytes of payload.  ok tells whether n such frames fit from pos on and the H
\* bytes of each, taken alone, decode as a content type and header entries.
RECURSIVE FramedParts(_, _, _, _)
FramedParts(data, pos, n, parts) ==
    IF n = 0 THEN [ok |-> TRUE, parts |-> parts, pos |-> pos]
    ELSE Bind(decodeUintvar(At(data, pos)), LAMBDA H :
         IF H.st # "ok" THEN [ok |-> FALSE, parts |-> parts, pos |-> pos]
         ELSE Bind(decodeUintvar(H.it), LAMBDA D :
         IF D.st # "ok" \/ D.it.pos + H.val + D.val > Len(data)
         THEN [ok |-> FALSE, parts |-> parts, pos |-> pos]
         ELSE Bind(PreviewIterator(SubSeq(data, D.it.pos + 1, D.it.pos + H.val)),
                   LAMBDA block :
              Bind(decodeContentTypeValue(block), LAMBDA ct :
              IF ct.st # "ok" THEN [ok |-> FALSE, parts |-> parts, pos |-> pos]
              ELSE Bind(PartHeadersLoop(ct.it, "Content-Type" :> ct.val), LAMBDA hs :
                   IF hs.st # "ok" THEN [ok |-> FALSE, parts |-> parts, pos |-> pos]
                   ELSE FramedParts(data, D.it.pos + H.val + D.val, n - 1,
                            Append(parts,
                                DataPart(SubSeq(data, D.it.pos + H.val + 1,
                                                D.it.pos + H.val + D.val),
                                         ct.val[1], ct.val[2], hs.val))))))))

BodyFraming(count) ==
    count.st = "ok"
        => Bind(FramedParts(wire, count.it.pos, count.val, <<>>), LAMBDA f :
           f.ok => /\ result.st = "ok"
                   /\ Len(result.val) = count.val
                   /\ result.val = f.parts
                   /\ iter.pos = f.pos)

\* C6: for a well-formed body announcing N parts decode_message_body appends
\* exactly N parts in wire order, each read from exactly the H bytes and the D
\* bytes its frame declares, the next part starting right after them
C6_BodyFraming ==
    op = "decode_message_body" => BodyFraming(decodeUintvar(before))

\* C6 witness: a body of two parts has been decoded to its last byte
C6_Witness ==
    /\ op = "decode_message_body" /\ result.st = "ok"
    /\ Len(result.val) = 2
    /\ iter.pos = Len(wire)

\* C8: a value-kind decoder that raises DecodeError leaves the cursor where it
\* was when the decoder was called: decodeBooleanValue, decodePriorityValue,
\* decodeSenderVisibilityValue and decodeExpiryValue
C8_CursorUnchanged ==
    (op \in {"decodeBooleanValue", "decodePriorityValue",
             "decodeSenderVisibilityValue", "decodeExpiryValue"}
     /\ result.st = "DecodeError")
        => iter.pos = before.pos /\ ~iter.peek

\* the three one-byte decoders do leave the cursor where it was
OneByteDecodersRestore ==
    (op \in {"decodeBooleanValue", "decodePriorityValue", "decodeSenderVisibilityValue"}
     /\ result.st = "DecodeError")
        => iter.pos = before.pos /\ ~iter.peek

\* the entry at the cursor starts with a registered field code
Registered(it) ==
    /\ ~Exhausted(it)
    /\ it.data[it.pos + 1] >= 128
    /\ (it.data[it.pos + 1] % 128) \in DOMAIN mms_field_names

\* what decoding the value of the registered field at the cursor gives
FieldValue(it) ==
    DecodeValue(mms_field_names[it.data[it.pos + 1] % 128][2], At(it.data, it.pos + 1))

\* the buffer ends at the cursor or inside the entry that starts there
CutShort(it) ==
    \/ Exhausted(it)
    \/ Registered(it) /\ FieldValue(it).st = "StopIteration"
    \/ decode_header(it).st = "StopIteration"

\* the value decoding of the registered field at the cursor fails with something
\* other than DecodeError
Fatal(it) ==
    Registered(it) /\ FieldValue(it).st \notin {"ok", "DecodeError"}

EndsNormally(w) ==
    (w.stop # "Content-Type" /\ CutShort(w.it))
        => result.st = "ok" /\ result.val = HeaderMap(w.entries)

\* C9: for a buffer that ends before a Content-Type entry is seen (empty, at an
\* entry boundary, or inside a header value) decode_message_header returns
\* normally with every fully decoded entry in the header map
C9_ExhaustionIsNormal ==
    op = "decode_message_header" => EndsNormally(Walk(PreviewIterator(wire), <<>>))

\* a buffer that ends at an entry boundary after at least one entry does end normally
BoundaryEndsNormally ==
    op = "decode_message_header"
        => Bind(Walk(PreviewIterator(wire), <<>>), LAMBDA w :
           (w.stop = "end" /\ w.entries # <<>>)
               => result.st = "ok" /\ result.val = HeaderMap(w.entries))

FatalAborts(w) ==
    (w.stop # "Content-Type" /\ Fatal(w.it))
        => /\ result.st = "RuntimeError"
           /\ op = "decode_message_header" => result.val = HeaderMap(w.entries)
           /\ op = "decode_data" => result.val = <<>>

\* C10: when the value decoding of a registered field fails with anything other
\* than DecodeError, decode_header raises the fatal error instead of reading the
\* entry as a generic application header, no entry is stored for it, and
\* decode_data raises the error instead of returning a Message
C10_FatalNotAbsorbed ==
    /\ (op = "decode_header" /\ Fatal(before)) => result.st = "RuntimeError"
    /\ op \in {"decode_message_header", "decode_data"}
          => FatalAborts(Walk(PreviewIterator(wire), <<>>))

\* C10 witness: decode_data has met Delivery-Time (field code 0x07) after a
\* decoded entry
C10_Witness ==
    /\ op = "decode_data" /\ result.st = "RuntimeError"
    /\ Len(wire) >= 3 /\ wire[1] = 140 /\ wire[3] = 135

\* C11: whenever decodeMMSHeader raises DecodeError the cursor is where it was
\* before the call, so the fallback of decode_header parses the entry from its
\* first byte
C11_CursorRestored ==
    /\ (op = "decodeMMSHeader" /\ result.st = "DecodeError")
          => iter.pos = before.pos
    /\ (op = "decode_header" /\ decodeMMSHeader(before).st = "DecodeError")
          => /\ result.st = wsp_decode_header(At(wire, before.pos)).st
             /\ result.val = wsp_decode_header(At(wire, before.pos)).val

\* for a field code that is not in the registry the cursor is where it was
UnregisteredRestored ==
    (op = "decodeMMSHeader" /\ result.st = "DecodeError" /\ ~Registered(before))
        => iter.pos = before.pos

\* the number of bytes the headers of a part other than Content-Type encode to
RECURSIVE OtherHeadersLen(_, _)
OtherHeadersLen(headers, names) ==
    IF names = {} THEN 0
    ELSE Bind(CHOOSE x \in names : TRUE, LAMBDA hdr :
         (IF hdr = "Content-Type" THEN 0 ELSE Len(wsp_encode_header(hdr, headers[hdr])))
         + OtherHeadersLen(headers, names \ {hdr}))

\* the bytes of one emitted part, read back: headers-length, data-length, the
\* content type, the other headers, the payload
PartLayout(bytes, part) ==
    Bind(decodeUintvar(PreviewIterator(bytes)), LAMBDA H :
    Bind(decodeUintvar(H.it), LAMBDA D :
    Bind(encodeContentTypeValue(part.headers["Content-Type"][1],
                                part.headers["Content-Type"][2]), LAMBDA ct :
    /\ H.st = "ok" /\ D.st = "ok"
    /\ H.val = Len(ct) + OtherHeadersLen(part.headers, DOMAIN part.headers)
    /\ D.val = Len(part.data)
    /\ Len(bytes) = D.it.pos + H.val + D.val
    /\ SubSeq(bytes, D.it.pos + 1, D.it.pos + Len(ct)) = ct
    /\ SubSeq(bytes, D.it.pos + H.val + 1, Len(bytes)) = part.data
    /\ Bind(FramedParts(bytes, 0, 1, <<>>), LAMBDA f :
            f.ok /\ f.parts = <<part>> /\ f.pos = Len(bytes)))))

\* C12: every part encode_message_body emits is written as headers-length,
\* data-length, content type, other headers, payload; the headers-length is the
\* number of content-type bytes plus the bytes of the other headers, the
\* data-length the number of payload bytes, and Content-Type is encoded once
C12_PartLayout ==
    (op = "encode" /\ result.st = "ok")
        => /\ \A i \in DOMAIN result.body.records :
                 PartLayout(result.body.records[i].bytes, result.body.parts[i])
           /\ result.body.val = encodeUintvar(result.body.num_entries)
                                  \o Flatten(result.body.records)
           /\ wire = Flatten(result.header.entries) \o result.body.val

\* C12 witness: a presentation part with a Content-ID header, an image part and
\* a text part have been emitted
C12_Witness ==
    /\ op = "encode" /\ result.st = "ok"
    /\ Len(result.body.records) = 3
    /\ result.body.records[1].headers_len > Len(result.body.records[1].content_type)
    /\ result.body.records[2].data_len = 2

\* the aliases and the canonical names they stand for
CanonicalName ==
    ("X-Mms-Message-Type" :> "Message-Type")
    @@ ("X-Mms-Transaction-Id" :> "Transaction-Id")
    @@ ("X-Mms-Version" :> "MMS-Version")

AliasesSupplied == DOMAIN CanonicalName \cap DOMAIN before.headers

AliasNotEmitted(entries) ==
    \A a \in AliasesSupplied :
        /\ \A i \in DOMAIN entries : entries[i].name # a
        /\ \E i \in DOMAIN entries : entries[i].name = CanonicalName[a]

AliasedMessageType(emitted, value) ==
    IF value # "m-send-req" THEN emitted = value
    ELSE /\ emitted \in {"m-send-req", "m-retrieve-conf"}
         /\ (Has(before.headers, "To") \/ Has(before.headers, "Cc"))
               => emitted = "m-send-req"
         /\ ~(\E d \in ToCcBcc : Has(before.headers, d))
               => emitted = "m-retrieve-conf"

MessageTypeNames ==
    <<"m-send-req", "m-send-conf", "m-notification-ind", "m-notifyresp-ind",
      "m-retrieve-conf", "m-acknowledge-ind", "m-delivery-ind">>

MessageTypeDecoded(byte) ==
    /\ result.st = "ok"
    /\ ~iter.peek
    /\ IF byte \in 128..134
       THEN result.val = MessageTypeNames[byte - 127] /\ iter.pos = before.pos + 1
       ELSE result.val = "<unknown>" /\ iter.pos = before.pos

\* after an entry Message-Type: <unknown> the next entry starts one byte on, at
\* the byte that was not recognised
UnknownNotSkipped(entries) ==
    \A i \in 1..(Len(entries) - 1) :
        (entries[i].name = "Message-Type" /\ entries[i].value = "<unknown>")
            => entries[i + 1].start = entries[i].start + 1

\* C14: decodeMessageTypeValue consumes a byte in 0x80..0x86 and returns its
\* name; for any other byte it returns <unknown> and consumes nothing, so the
\* next header entry starts at that byte
C14_UnknownNotConsumed ==
    /\ (op = "decodeMessageTypeValue" /\ ~Exhausted(before))
          => MessageTypeDecoded(wire[before.pos + 1])
    /\ (op = "decode_header" /\ before.pos + 2 <= Len(wire)
        /\ wire[before.pos + 1] = 140 /\ wire[before.pos + 2] \notin 128..134)
          => /\ result.st = "ok"
             /\ result.val = <<"Message-Type", "<unknown>">>
             /\ iter.pos = before.pos + 1
    /\ op = "decode_message_header"
          => UnknownNotSkipped(Walk(PreviewIterator(wire), <<>>).entries)

\* C14 witness: after Message-Type with the byte 0x98, which is no message
\* type, the next entry has been decoded from that byte on
C14_Witness ==
    /\ op = "decode_header" /\ result.st = "ok"
    /\ before.pos = 1 /\ wire[1] = 140 /\ wire[2] = 152
    /\ result.val[1] = "Transaction-Id"
    /\ iter.pos = 4

\* the form Value-length Char-set Text-string read at the cursor: ok holds when
\* all three decode, text is then the text string
LengthCharsetText(it) ==
    Bind(decodeValueLength(it), LAMBDA l :
    IF l.st # "ok" THEN [ok |-> FALSE, text |-> <<>>, it |-> l.it]
    ELSE Bind(decodeWellKnownCharset(l.it), LAMBDA c :
         IF c.st # "ok" THEN [ok |-> FALSE, text |-> <<>>, it |-> c.it]
         ELSE Bind(decodeTextString(c.it), LAMBDA t :
              [ok |-> t.st = "ok", text |-> t.val, it |-> t.it])))

\* what decoding a bare text string gives at some position from the cursor on
BareTextResults(it) ==
    {Bind(decodeTextString(At(it.data, p)), LAMBDA t : <<t.st, t.val>>) :
        p \in it.pos..Len(it.data)}

EncodedStringDecoded(form) ==
    IF form.ok
    THEN result.st = "ok" /\ result.val = form.text /\ iter.pos = form.it.pos
    ELSE <<result.st, result.val>> \in BareTextResults(before)

\* C15: decodeEncodedStringValue returns the text of the form value-length,
\* charset, text-string; when that form fails at any of the three it decodes a
\* bare text string instead and raises no error but that of the bare decode
C15_FallbackToText ==
    op = "decodeEncodedStringValue" => EncodedStringDecoded(LengthCharsetText(before))

\* when the value-length or the text string of the form does not decode, the
\* decoder does fall back to a bare text string
FallbackButForCharset ==
    (op = "decodeEncodedStringValue" /\ result.st # "Exception")
        => EncodedStringDecoded(LengthCharsetText(before))

(***************************************************************************)
(* The From value: an address is encoded by encodeFromValue, bytes of the  *)
(* next header may follow, and decodeFromValue reads the value back        *)
(***************************************************************************)
MaxAddress == 3       \* characters of a generated address
LongAddress == 30     \* characters of the one long address

\* "+", "1", "A" and a character above 127
AddressChars == {43, 49, 65, 200}

Addresses ==
    UNION {[1..n -> AddressChars] : n \in 0..MaxAddress}
    \cup {[i \in 1..LongAddress |-> 65]}

\* what follows the From value in the buffer: nothing, or the text "A"
Tails == {<<>>, <<65, 0>>}

InitFrom ==
    /\ op = "init"
    /\ msg = Message(EmptyDict, <<>>, <<>>)
    /\ wire = <<>>
    /\ iter = PreviewIterator(<<>>)
    /\ result = NoResult
    /\ before \in [address : Addresses, tail : Tails]

\* MMSEncoder.encodeFromValue(address)
EncodeFromValue ==
    /\ op = "init"
    /\ result' = Ok(encodeFromValue(before.address), iter)
    /\ op' = "encodeFromValue"
    /\ wire' = result'.val \o before.tail
    /\ iter' = PreviewIterator(wire')
    /\ UNCHANGED <<msg, before>>

\* MMSDecoder.decodeFromValue on the bytes
DecodeFromValue ==
    /\ op = "encodeFromValue"
    /\ result' = decodeFromValue(iter)
    /\ op' = "decodeFromValue"
    /\ iter' = result'.it
    /\ UNCHANGED <<msg, wire, before>>

NextFrom == EncodeFromValue \/ DecodeFromValue

SpecFrom == InitFrom /\ [][NextFrom]_vars

\* the bytes are a value-length, then that many bytes: the token 0x81 alone for
\* the empty address, the token 0x80 and the text string otherwise
FromLayout(bytes, address) ==
    Bind(decodeValueLength(PreviewIterator(bytes)), LAMBDA l :
    /\ l.st = "ok"
    /\ Len(bytes) = l.it.pos + l.val
    /\ IF address = <<>>
       THEN l.val = 1 /\ bytes[l.it.pos + 1] = 129
       ELSE /\ bytes[l.it.pos + 1] = 128
            /\ SubSeq(bytes, l.it.pos + 2, Len(bytes))
                  = (IF address[1] >= 128 THEN <<127>> ELSE <<>>) \o address \o <<0>>)

\* the text "<not inserted>"
NotInsertedText ==
    <<60, 110, 111, 116, 32, 105, 110, 115, 101, 114, 116, 101, 100, 62>>

\* C16: encodeFromValue(a) is a value-length followed by exactly that many
\* bytes, and decodeFromValue consumes exactly those bytes and returns a, or
\* "<not inserted>" when a is empty
C16_FromRoundTrip ==
    /\ op = "encodeFromValue" => FromLayout(result.val, before.address)
    /\ op = "decodeFromValue"
          => /\ result.st = "ok"
             /\ iter.pos = Len(wire) - Len(before.tail)
             /\ result.val = IF before.address = <<>> THEN NotInsertedText
                             ELSE before.address

\* C16 witness: the long address, followed by other bytes, has been read back
C16_Witness ==
    /\ op = "decodeFromValue" /\ result.st = "ok"
    /\ Len(before.address) >= 30
    /\ before.tail # <<>>
    /\ wire[1] = 31

\* encoding msg, the Message as the last encode left it, emits this value for name
EmittedAgain(name, value) ==
    \A trans_id \in RandomDraws(msg.headers), order \in IterationOrders(msg.headers) :
        Bind(encode(msg, trans_id, order), LAMBDA again :
             again.st = "ok" /\ EmittedValue(again.header.entries, name) = value)

\* C17: encode leaves the header map of the Message as it was, keys and values,
\* so encoding the Message again emits the same Message-Type and MMS-Version
C17_EncodePure ==
    (op = "encode" /\ result.st = "ok")
        => /\ DOMAIN msg.headers = DOMAIN before.headers
           /\ \A k \in DOMAIN before.headers : msg.headers[k] = before.headers[k]
           /\ EmittedAgain("Message-Type",
                           EmittedValue(result.header.entries, "Message-Type"))
           /\ EmittedAgain("MMS-Version",
                           EmittedValue(result.header.entries, "MMS-Version"))

\* encode leaves the pages and the raw data parts of the Message as they were,
\* and the headers it did not delete or rename keep their values
OnlyHeadersTouched ==
    (op = "encode" /\ result.st = "ok")
        => /\ msg._pages = before._pages
           /\ msg._data_parts = before._data_parts
           /\ DOMAIN msg.headers
                 = DOMAIN Supplied \ {"Message-Type", "Transaction-Id", "MMS-Version"}
           /\ \A k \in DOMAIN msg.headers : msg.headers[k] = Supplied[k]

(***************************************************************************)
(* decode_message_header pass by pass: msg is the Message being filled,    *)
(* result what the last decode_header returned or raised, before the       *)
(* cursor position the last pass started from and the local variables      *)
(* header, value (bound is <<>> while they are unassigned).  op is "while" *)
(* at the loop test, "after_loop" once the loop is left, and "returned" or *)
(* "raised" when the call is over.                                         *)
(***************************************************************************)
InitLoop ==
    /\ op = "while"
    /\ msg = Message(EmptyDict, <<>>, <<>>)
    /\ wire \in Buffers
    /\ iter = PreviewIterator(wire)
    /\ result = NoResult
    /\ before = [pos |-> 0, bound |-> <<>>]

\* one pass of the while loop: decode_header, then break, raise, stop at
\* Content-Type or store the entry
LoopPass ==
    /\ op = "while"
    /\ \E r \in {decode_header(iter)} :
        /\ result' = r
        /\ iter' = r.it
        /\ IF r.st = "StopIteration"
           THEN op' = "after_loop" /\ msg' = msg
                /\ before' = [before EXCEPT !.pos = iter.pos]
           ELSE IF r.st # "ok"
           THEN op' = "raised" /\ msg' = msg
                /\ before' = [before EXCEPT !.pos = iter.pos]
           ELSE /\ before' = [pos |-> iter.pos, bound |-> r.val]
                /\ IF r.val[1] = mms_field_names[4][1]
                   THEN op' = "after_loop" /\ msg' = msg
                   ELSE /\ op' = "while"
                        /\ msg' = [msg EXCEPT !.headers =
                                      Put(@, r.val[1], r.val[2])]
    /\ wire' = wire

\* the statements after the loop: if header == 'Content-Type': ...; return
AfterLoop ==
    /\ op = "after_loop"
    /\ IF before.bound = <<>>
       THEN /\ op' = "raised"
            /\ result' = Raise("UnboundLocalError", iter)
            /\ msg' = msg
       ELSE /\ op' = "returned"
            /\ result' = Ok(<<>>, iter)
            /\ msg' = IF before.bound[1] = "Content-Type"
                      THEN [msg EXCEPT !.headers =
                               Put(@, before.bound[1], before.bound[2])]
                      ELSE msg
    /\ UNCHANGED <<wire, iter, before>>

NextLoop == LoopPass \/ AfterLoop

\* the call runs on until it returns or raises: nothing suspends it
SpecLoop == InitLoop /\ [][NextLoop]_vars /\ WF_vars(NextLoop)

\* the passes end as decode_message_header ends
LoopAgrees ==
    op \in {"returned", "raised"}
        => Bind(decode_message_header(wire), LAMBDA r :
                /\ r.st = (IF op = "returned" THEN "ok" ELSE result.st)
                /\ r.val = msg.headers
                /\ r.it = iter)

\* a pass that got an entry has moved the cursor on
PassConsumes ==
    (op \in {"while", "after_loop"} /\ result.st = "ok")
        => before.pos < iter.pos /\ iter.pos <= Len(wire)

\* C18: every decode_header call of the header loop that returns an entry has
\* consumed at least one byte, and decode_message_header comes to an end on
\* every buffer, by returning or by raising
C18_LoopTerminates ==
    []PassConsumes /\ <>(op \in {"returned", "raised"})

\* C18 witness: the loop has gone past a Message-Type whose byte it did not
\* recognise and has returned
C18_Witness ==
    /\ op = "returned"
    /\ Has(msg.headers, "Message-Type") /\ msg.headers["Message-Type"] = "<unknown>"
    /\ Has(msg.headers, "Transaction-Id")
    /\ wire[1] = 140 /\ wire[2] = 152

====
